---------------------------- MODULE Spec2Model ----------------------------
(***************************************************************************)
(* Bayesian A/B decision statistics of python/bayesian/dists.py: the       *)
(* conjugate posterior update, the moments, the quadrature rule and the    *)
(* quadrature-based risk of the Beta and the Normal family.                *)
(*                                                                         *)
(* Numbers.  A float is modelled as an exact extended rational <<n, d>>    *)
(* in lowest terms with d >= 0: d > 0 is the finite value n/d, <<1, 0>>    *)
(* is +inf, <<-1, 0>> is -inf and <<0, 0>> is nan (numpy's results for a   *)
(* division by zero and for an invalid operation under its default error   *)
(* state, which warns and goes on).  Rounding error and the sign of zero   *)
(* are not modelled.  sqrt and log are kept symbolic: [rad |-> q] is the   *)
(* square root of q and [log |-> q] the natural logarithm of q.            *)
(*                                                                         *)
(* Arrays.  An ndarray is an object of the heap: heap maps an address to   *)
(* a sequence of numbers, and an array result is returned by address.      *)
(***************************************************************************)
EXTENDS Integers, Sequences, FiniteSets, TLC

VARIABLES op, fam, args, ret, exc, warned, heap, kept

vars == <<op, fam, args, ret, exc, warned, heap, kept>>

---------------------------------------------------------------------------
(* Extended rational arithmetic (the float operations the code uses).      *)

Abs(i) == IF i < 0 THEN -i ELSE i

Sign(i) == IF i < 0 THEN -1 ELSE IF i = 0 THEN 0 ELSE 1

RECURSIVE Gcd(_, _)
Gcd(a, b) == IF b = 0 THEN a ELSE Gcd(b, a % b)

\* n/d in lowest terms; d = 0 gives +inf, -inf or nan by the sign of n.
Q(n, d) ==
    IF d = 0 THEN <<Sign(n), 0>>
    ELSE LET g == Gcd(Abs(n), Abs(d))
         IN  <<Sign(d) * Sign(n) * (Abs(n) \div g), Abs(d) \div g>>

I(n) == <<n, 1>>

NaN == <<0, 0>>

Zero == <<0, 1>>

One == <<1, 1>>

IsNaN(a) == a = NaN

IsFinite(a) == a[2] > 0

\* a * b, cross-reduced so that the products stay small.
Mul(a, b) ==
    IF a[2] = 0 \/ b[2] = 0 THEN Q(a[1] * b[1], 0)
    ELSE LET g1 == Gcd(Abs(a[1]), b[2])
             g2 == Gcd(Abs(b[1]), a[2])
         IN  Q((a[1] \div g1) * (b[1] \div g2), (a[2] \div g2) * (b[2] \div g1))

\* 1 / a: 1/0 = inf, 1/inf = 0, 1/nan = nan.
Recip(a) == Q(a[2], a[1])

Div(a, b) == Mul(a, Recip(b))

Neg(a) == <<-a[1], a[2]>>

\* a + b: inf + (-inf) = nan, nan + x = nan.
Add(a, b) ==
    IF IsNaN(a) \/ IsNaN(b) THEN NaN
    ELSE IF a[2] = 0 /\ b[2] = 0 THEN (IF a[1] = b[1] THEN a ELSE NaN)
    ELSE IF a[2] = 0 THEN a
    ELSE IF b[2] = 0 THEN b
    ELSE LET g == Gcd(a[2], b[2])
         IN  Q(a[1] * (b[2] \div g) + b[1] * (a[2] \div g), (a[2] \div g) * b[2])

Sub(a, b) == Add(a, Neg(b))

\* a < b as floats compare: false when either side is nan.
Lt(a, b) ==
    IF IsNaN(a) \/ IsNaN(b) THEN FALSE
    ELSE IF a[2] = 0 /\ b[2] = 0 THEN a[1] < b[1]
    ELSE IF a[2] = 0 THEN a[1] < 0
    ELSE IF b[2] = 0 THEN b[1] > 0
    ELSE Sub(a, b)[1] < 0

Gt(a, b) == Lt(b, a)

Le(a, b) == Lt(a, b) \/ (~IsNaN(a) /\ a = b)

QMin(a, b) == IF Lt(b, a) THEN b ELSE a

\* np.power(a, 2)
Power2(a) == Mul(a, a)

\* np.sqrt(a), symbolic: the root of a negative number or of nan is nan.
Sqrt(a) == IF IsNaN(a) \/ Lt(a, Zero) THEN [rad |-> NaN] ELSE [rad |-> a]

\* The square of a symbolic root.
SqrtSquared(s) == s.rad

\* np.log(a), symbolic.
Log(a) == [log |-> a]

\* int(n): truncation towards zero.
Trunc(a) == Sign(a[1]) * (Abs(a[1]) \div a[2])

RECURSIVE SumSeq(_)
\* Python's sum(...) over an array: a left fold from 0.
SumSeq(s) == IF s = <<>> THEN Zero ELSE Add(SumSeq(SubSeq(s, 1, Len(s) - 1)), s[Len(s)])

---------------------------------------------------------------------------
(* Beta.posterior and Norm.posterior.                                      *)

\* Beta.posterior without the subtraction of the successes.
Beta_posterior_all_trials(prior, data) ==
    <<Add(prior[1], data[1]), Add(prior[2], data[2])>>

\* Beta.posterior reading the data summary as (trials, successes).
Beta_posterior_swapped_data(prior, data) ==
    <<Add(prior[1], data[1]), Sub(Add(prior[2], data[1]), data[2])>>

Beta_posterior(prior, data) ==
    LET a == Add(prior[1], data[1])
        b == Sub(Add(prior[2], data[2]), data[1])
    IN  <<a, b>>

\* Norm.posterior weighting the data by the weight of the prior.
Norm_posterior_prior_weight(prior, data) ==
    LET inv_var_0 == Div(prior[3], Power2(prior[2]))
        inv_var_d == Div(prior[3], Power2(data[2]))
        var       == Div(One, Add(inv_var_0, inv_var_d))
        loc       == Mul(var, Add(Mul(inv_var_0, prior[1]), Mul(inv_var_d, data[1])))
        scale     == Sqrt(var)
    IN  <<loc, scale>>

Norm_posterior(prior, data) ==
    LET inv_var_0 == Div(prior[3], Power2(prior[2]))
        inv_var_d == Div(data[3], Power2(data[2]))
        var       == Div(One, Add(inv_var_0, inv_var_d))
        loc       == Mul(var, Add(Mul(inv_var_0, prior[1]), Mul(inv_var_d, data[1])))
        scale     == Sqrt(var)
    IN  <<loc, scale>>

---------------------------------------------------------------------------
(* The heap of ndarrays.                                                   *)

EmptyHeap == <<>>

\* The lowest free address.
NewAddr(h) ==
    CHOOSE a \in 1..(Cardinality(DOMAIN h) + 1) :
        a \notin DOMAIN h /\ \A b \in 1..(a - 1) : b \in DOMAIN h

\* The heap with a new array holding arr, at the address NewAddr(h).
Alloc(h, arr) == (NewAddr(h) :> arr) @@ h

\* The heap once every array outside live is freed (an array nothing
\* refers to any more is freed when the call returns).
Release(h, live) == [a \in (DOMAIN h) \cap live |-> h[a]]

---------------------------------------------------------------------------
(* The numeric library the module consumes.                                *)

\* sqrt(2 pi), the total mass of the normal-weighted Hermite rule, to 6
\* decimals.
HermiteMass == Q(2506628, 1000000)

\* sqrt(3), the positive root of He_3, to 6 decimals.
Root3 == Q(1732051, 1000000)

\* The roots of the Hermite polynomial He_n, in increasing order.
HermiteRoots(n) ==
    CASE n = 1 -> <<Zero>>
      [] n = 2 -> <<I(-1), I(1)>>
      [] n = 3 -> <<Neg(Root3), Zero, Root3>>

\* The weights of the n-point rule as fractions of its mass.
HermiteShare(n) ==
    CASE n = 1 -> <<One>>
      [] n = 2 -> <<Q(1, 2), Q(1, 2)>>
      [] n = 3 -> <<Q(1, 6), Q(2, 3), Q(1, 6)>>

\* The weights of the n-point rule, a new array of the heap h that holds
\* the roots at x.
HermiteWeights(h, x, n) ==
    [exc |-> "none", x |-> x, w |-> NewAddr(h), m |-> HermiteMass,
     heap |-> Alloc(h, [i \in 1..n |-> Mul(HermiteMass, HermiteShare(n)[i])])]

\* scipy.special.roots_hermitenorm(n, True): two new arrays, the roots
\* and the weights, and the weights' sum mu0 = sqrt(2 pi); n < 1 raises.
roots_hermitenorm(h, n) ==
    IF n < 1 THEN [exc |-> "ValueError", heap |-> h, x |-> 0, w |-> 0, m |-> Zero]
    ELSE HermiteWeights(Alloc(h, HermiteRoots(n)), NewAddr(h), n)

\* The Gauss rule of the Beta(a, b) density on [0, 1] where its nodes are
\* rational: the one-point rule (the mean), and the symmetric densities
\* with a rational standard deviation.  Weights as probabilities.
JacobiTabulated(n, a, b) ==
    \/ n = 1 /\ Gt(a, Zero) /\ Gt(b, Zero)
    \/ n = 2 /\ a = b /\ a \in {I(4), I(12)}
    \/ n = 3 /\ a = b /\ a = I(12)

JacobiNodes(n, a, b) ==
    CASE n = 1               -> <<Div(a, Add(a, b))>>
      [] n = 2 /\ a = I(4)   -> <<Q(1, 3), Q(2, 3)>>
      [] n = 2 /\ a = I(12)  -> <<Q(2, 5), Q(3, 5)>>
      [] n = 3 /\ a = I(12)  -> <<Q(1, 3), Q(1, 2), Q(2, 3)>>

JacobiWeights(n, a, b) ==
    CASE n = 1 -> <<One>>
      [] n = 2 -> <<Q(1, 2), Q(1, 2)>>
      [] n = 3 -> <<Q(9, 50), Q(16, 25), Q(9, 50)>>

\* The rule of Beta(a, b): two new arrays, the nodes and the weights.
JacobiRule(h, x, n, a, b) ==
    [exc |-> "none", x |-> x, w |-> NewAddr(h), heap |-> Alloc(h, JacobiWeights(n, a, b))]

\* orthogonal.roots_sh_jacobi(n, p1, q1, False): two new arrays, the nodes
\* on [0, 1] and the weights, for the weight (1-x)^(p1-q1) x^(q1-1).
roots_sh_jacobi(h, n, p1, q1) ==
    IF n < 1 \/ Le(Sub(p1, q1), I(-1)) \/ Le(q1, Zero)
    THEN [exc |-> "DomainError", heap |-> h, x |-> 0, w |-> 0]
    ELSE JacobiRule(Alloc(h, JacobiNodes(n, q1, Add(Sub(p1, q1), One))), NewAddr(h),
                    n, q1, Add(Sub(p1, q1), One))

\* The standard normal CDF at z = k/2, in units of 10^-7.
PhiHalf(k) ==
    CASE k = 0  -> 5000000
      [] k = 1  -> 6914625
      [] k = 2  -> 8413447
      [] k = 3  -> 9331928
      [] k = 4  -> 9772499
      [] k = 5  -> 9937903
      [] k = 6  -> 9986501
      [] k = 7  -> 9997674
      [] k = 8  -> 9999683
      [] k = 9  -> 9999966
      [] k = 10 -> 9999997
      [] k > 10 -> 10000000

\* scipy.stats.norm.cdf(x, loc, scale) to 7 decimals, tabulated where
\* z = (x - loc)/scale is a multiple of 1/2 (between two such points, the
\* value at the lower one); nan for a scale that is not positive.
norm_cdf(x, loc, scale) ==
    IF ~Gt(scale, Zero) \/ ~IsFinite(scale) \/ ~IsFinite(x) \/ ~IsFinite(loc) THEN NaN
    ELSE LET z == Mul(I(2), Div(Sub(x, loc), scale))
             k == z[1] \div z[2]
         IN  IF k >= 0 THEN Q(PhiHalf(k), 10000000)
             ELSE Q(10000000 - PhiHalf(-k), 10000000)

RECURSIVE Pow(_, _)
Pow(a, k) == IF k = 0 THEN One ELSE Mul(a, Pow(a, k - 1))

RECURSIVE Choose(_, _)
\* The binomial coefficient.
Choose(n, k) == IF k = 0 \/ k = n THEN 1 ELSE Choose(n - 1, k - 1) + Choose(n - 1, k)

RECURSIVE BinomTail(_, _, _)
\* Sum over j in from..m of C(m, j) x^j (1-x)^(m-j).
BinomTail(x, m, from) ==
    IF from > m THEN Zero
    ELSE Add(Mul(I(Choose(m, from)), Mul(Pow(x, from), Pow(Sub(One, x), m - from))),
             BinomTail(x, m, from + 1))

\* scipy.stats.beta.cdf(x, a, b) for integers a, b >= 1: the regularised
\* incomplete beta function, a binomial tail.
beta_cdf(x, a, b) ==
    IF Le(x, Zero) THEN Zero
    ELSE IF Le(One, x) THEN One
    ELSE BinomTail(x, a[1] + b[1] - 1, a[1])

\* scipy.stats.norm.mean(loc, scale) and scipy.stats.beta.mean(a, b).
norm_mean(loc, scale) == loc

beta_mean(a, b) == Div(a, Add(a, b))

\* cls.dist.cdf and cls.dist.mean: the class attribute dist of each family.
dist_cdf(cls, x, par1, par2) ==
    IF cls = "Beta" THEN beta_cdf(x, par1, par2) ELSE norm_cdf(x, par1, par2)

\* dist.mean on two tuples broadcasts: element i is the mean at
\* (p1s[i], p2s[i]).
dist_mean(cls, p1s, p2s) ==
    [i \in 1..2 |-> IF cls = "Beta" THEN beta_mean(p1s[i], p2s[i])
                                     ELSE norm_mean(p1s[i], p2s[i])]

---------------------------------------------------------------------------
(* gq and risk.                                                            *)

Beta_gq(h, n, par1, par2) ==
    roots_sh_jacobi(h, Trunc(n), Sub(Add(par1, par2), One), par1)

\* Norm.gq without w /= m.
Norm_gq_rule_raw(r, par1, par2) ==
    IF r.exc # "none" THEN [exc |-> r.exc, heap |-> r.heap, x |-> 0, w |-> 0]
    ELSE [exc |-> "none", x |-> NewAddr(r.heap), w |-> r.w,
          heap |-> Alloc(r.heap, [i \in DOMAIN r.heap[r.x] |->
                                    Add(Mul(par2, r.heap[r.x][i]), par1)])]

\* x = par2 * x + par1 (a new array) and w /= m (in place) on the rule r.
Norm_gq_rule(r, par1, par2) ==
    IF r.exc # "none" THEN [exc |-> r.exc, heap |-> r.heap, x |-> 0, w |-> 0]
    ELSE [exc |-> "none", x |-> NewAddr(r.heap), w |-> r.w,
          heap |-> [Alloc(r.heap, [i \in DOMAIN r.heap[r.x] |->
                                     Add(Mul(par2, r.heap[r.x][i]), par1)])
                      EXCEPT ![r.w] = [i \in DOMAIN @ |-> Div(@[i], r.m)]]]

\* Norm.gq with the roots memoised and moved in place: an array of n
\* numbers already on the heap is taken for the roots and overwritten.
Norm_gq_memo(h, n, par1, par2) ==
    IF Trunc(n) >= 1 /\ \E a \in DOMAIN h : Len(h[a]) = Trunc(n)
    THEN [exc |-> "none", w |-> NewAddr(h),
          x |-> CHOOSE a \in DOMAIN h :
                  /\ Len(h[a]) = Trunc(n)
                  /\ \A b \in DOMAIN h : Len(h[b]) = Trunc(n) => b <= a,
          heap |-> Alloc([a \in DOMAIN h |->
                            IF /\ Len(h[a]) = Trunc(n)
                               /\ \A b \in DOMAIN h : Len(h[b]) = Trunc(n) => b <= a
                            THEN [i \in DOMAIN h[a] |-> Add(Mul(par2, h[a][i]), par1)]
                            ELSE h[a]],
                         HermiteShare(Trunc(n)))]
    ELSE Norm_gq_rule(roots_hermitenorm(h, Trunc(n)), par1, par2)

Norm_gq(h, n, par1, par2) == Norm_gq_rule(roots_hermitenorm(h, Trunc(n)), par1, par2)

gq(cls, h, n, par1, par2) ==
    IF cls = "Beta" THEN Beta_gq(h, n, par1, par2) ELSE Norm_gq(h, n, par1, par2)

\* nodes * cls.dist.cdf(nodes, par1, par2) * weights, element by element.
Integrand(cls, nodes, weights, par1, par2) ==
    [i \in DOMAIN nodes |-> Mul(Mul(nodes[i], dist_cdf(cls, nodes[i], par1, par2)), weights[i])]

\* out = gq - mean, a number minus an array of two.
risk_out(est, mean) == <<Sub(est, mean[1]), Sub(est, mean[2])>>

\* risk with each arm's nodes weighted by the CDF of the same arm.
risk_rules_own_cdf(cls, ga, gb, a_par1, a_par2, b_par1, b_par2) ==
    IF gb.exc # "none" THEN [exc |-> gb.exc, heap |-> gb.heap, out |-> <<>>]
    ELSE [exc |-> "none", heap |-> gb.heap,
          out |-> risk_out(
              Add(SumSeq(Integrand(cls, gb.heap[ga.x], gb.heap[ga.w], a_par1, a_par2)),
                  SumSeq(Integrand(cls, gb.heap[gb.x], gb.heap[gb.w], b_par1, b_par2))),
              dist_mean(cls, <<a_par1, b_par1>>, <<a_par2, b_par2>>))]

\* risk with the second sum weighted by the CDF of arm B, as the first is.
risk_rules_copied_cdf(cls, ga, gb, a_par1, a_par2, b_par1, b_par2) ==
    IF gb.exc # "none" THEN [exc |-> gb.exc, heap |-> gb.heap, out |-> <<>>]
    ELSE [exc |-> "none", heap |-> gb.heap,
          out |-> risk_out(
              Add(SumSeq(Integrand(cls, gb.heap[ga.x], gb.heap[ga.w], b_par1, b_par2)),
                  SumSeq(Integrand(cls, gb.heap[gb.x], gb.heap[gb.w], b_par1, b_par2))),
              dist_mean(cls, <<a_par1, b_par1>>, <<a_par2, b_par2>>))]

\* risk with the means taken at (a_par1, a_par2), (b_par1, b_par2) read as
\* the two first and the two second parameters.
risk_rules_mean_by_arm(cls, ga, gb, a_par1, a_par2, b_par1, b_par2) ==
    IF gb.exc # "none" THEN [exc |-> gb.exc, heap |-> gb.heap, out |-> <<>>]
    ELSE [exc |-> "none", heap |-> gb.heap,
          out |-> risk_out(
              Add(SumSeq(Integrand(cls, gb.heap[ga.x], gb.heap[ga.w], b_par1, b_par2)),
                  SumSeq(Integrand(cls, gb.heap[gb.x], gb.heap[gb.w], a_par1, a_par2))),
              dist_mean(cls, <<a_par1, a_par2>>, <<b_par1, b_par2>>))]

\* risk once both rules ga and gb are built.
risk_rules(cls, ga, gb, a_par1, a_par2, b_par1, b_par2) ==
    IF gb.exc # "none" THEN [exc |-> gb.exc, heap |-> gb.heap, out |-> <<>>]
    ELSE [exc |-> "none", heap |-> gb.heap,
          out |-> risk_out(
              Add(SumSeq(Integrand(cls, gb.heap[ga.x], gb.heap[ga.w], b_par1, b_par2)),
                  SumSeq(Integrand(cls, gb.heap[gb.x], gb.heap[gb.w], a_par1, a_par2))),
              dist_mean(cls, <<a_par1, b_par1>>, <<a_par2, b_par2>>))]

\* risk once the rule ga of arm A is built.
risk_a(cls, ga, a_par1, a_par2, b_par1, b_par2, n) ==
    IF ga.exc # "none" THEN [exc |-> ga.exc, heap |-> ga.heap, out |-> <<>>]
    ELSE risk_rules(cls, ga, gq(cls, ga.heap, n, b_par1, b_par2),
                    a_par1, a_par2, b_par1, b_par2)

risk(cls, h, a_par1, a_par2, b_par1, b_par2, n) ==
    risk_a(cls, gq(cls, h, n, a_par1, a_par2), a_par1, a_par2, b_par1, b_par2, n)

---------------------------------------------------------------------------
(* Beta.moments and Norm.moments.  par1 and par2 are arrays of one length  *)
(* (a scalar is an array of length 1); the results are arrays too.         *)

EPSILON == Q(1, 10000)

RECURSIVE Harmonic(_, _)
\* Sum over j in 1..k of 1/j^p.
Harmonic(k, p) == IF k = 0 THEN Zero ELSE Add(Harmonic(k - 1, p), Pow(Q(1, k), p))

\* scipy.special.digamma(a) at an integer a >= 1, plus Euler's constant
\* (the constant cancels in the differences the code takes).
digamma(a) == Harmonic(a[1] - 1, 1)

\* scipy.special.polygamma(1, a) at an integer a >= 1, minus pi^2/6.
polygamma1(a) == Neg(Harmonic(a[1] - 1, 2))

Beta_moments(par1, par2, log) ==
    IF log
    THEN [warned |-> FALSE,
          mean |-> [i \in DOMAIN par1 |-> Div(par1[i], Add(par1[i], par2[i]))],
          var  |-> [i \in DOMAIN par1 |->
                      Div(Mul(par1[i], par2[i]),
                          Mul(Power2(Add(par1[i], par2[i])),
                              Add(Add(par1[i], par2[i]), One)))]]
    ELSE [warned |-> FALSE,
          mean |-> [i \in DOMAIN par1 |->
                      Sub(digamma(par1[i]), digamma(Add(par1[i], par2[i])))],
          var  |-> [i \in DOMAIN par1 |->
                      Sub(polygamma1(par1[i]), polygamma1(Add(par1[i], par2[i])))]]

\* Norm.moments warning only when every element is likely negative.
Norm_moments_all(par1, par2, log) ==
    IF log
    THEN [warned |-> \A i \in DOMAIN par1 :
                         Gt(norm_cdf(Zero, par1[i], par2[i]), EPSILON),
          mean |-> [i \in DOMAIN par1 |-> Log(par1[i])],
          var  |-> [i \in DOMAIN par1 |-> Power2(Div(par2[i], par1[i]))]]
    ELSE [warned |-> FALSE,
          mean |-> par1,
          var  |-> [i \in DOMAIN par1 |-> Power2(par2[i])]]

Norm_moments(par1, par2, log) ==
    IF log
    THEN [warned |-> Cardinality({i \in DOMAIN par1 :
                         Gt(norm_cdf(Zero, par1[i], par2[i]), EPSILON)}) # 0,
          mean |-> [i \in DOMAIN par1 |-> Log(par1[i])],
          var  |-> [i \in DOMAIN par1 |-> Power2(Div(par2[i], par1[i]))]]
    ELSE [warned |-> FALSE,
          mean |-> par1,
          var  |-> [i \in DOMAIN par1 |-> Power2(par2[i])]]

---------------------------------------------------------------------------
(* The callers' inputs.                                                    *)

MaxCount == 3

MaxLoc == 1

MaxMean == 4

MaxBatch == 2

\* Beta priors and data summaries, valid and invalid.
BetaPriorValues == {I(-1), Zero, Q(1, 2), One, I(2)}

BetaPriors == BetaPriorValues \X BetaPriorValues

BetaData ==
    {<<I(s), I(t)>> : s \in -1..MaxCount, t \in -1..MaxCount} \cup {<<I(50), I(100)>>}

\* Normal summaries (location, scale, weight), valid and invalid.
NormLocs == {I(k) : k \in -MaxLoc..MaxLoc}

NormSummaries ==
    NormLocs \X {I(-1), Zero, One, I(2)} \X {I(-1), Zero, Q(1, 2), One, I(2)}

\* Parameter pairs of valid posteriors.
NormPars == NormLocs \X {One, I(2)}

BetaPars == {<<One, One>>, <<One, I(2)>>, <<I(2), One>>, <<I(2), I(3)>>, <<I(4), I(4)>>}

\* Quadrature orders as passed: an order below 1, whole and fractional
\* orders.
GqOrders == {Zero, One, I(2), Q(5, 2), I(3)}

RiskOrders == {Zero, One, I(2), Q(5, 2)}

BetaGqCalls ==
    {c \in GqOrders \X (BetaPars \cup {<<Q(1, 2), Q(1, 2)>>, <<I(12), I(12)>>}) :
        Trunc(c[1]) < 1 \/ JacobiTabulated(Trunc(c[1]), c[2][1], c[2][2])}

BetaRiskCalls ==
    {c \in RiskOrders \X BetaPars \X BetaPars :
        \/ Trunc(c[1]) < 1
        \/ /\ JacobiTabulated(Trunc(c[1]), c[2][1], c[2][2])
           /\ JacobiTabulated(Trunc(c[1]), c[3][1], c[3][2])}

\* Batches of moment parameters.
MomentPars(cls) ==
    IF cls = "Beta" THEN {<<I(a), I(b)>> : a \in 1..3, b \in 1..3}
    ELSE {<<I(m), s>> : m \in -1..MaxMean, s \in {One, I(2)}}

Batches(cls) == UNION {[1..k -> MomentPars(cls)] : k \in 1..MaxBatch}

\* The calls of a caller that keeps results: a few of each operation.
PureBetaPriors == {<<One, One>>, <<Q(1, 2), I(2)>>}

PureBetaData == {<<Zero, Zero>>, <<One, I(2)>>}

PureNormSummaries == {<<Zero, One, One>>, <<One, I(2), Q(1, 2)>>}

PureNormPars == {<<Zero, One>>, <<One, I(2)>>}

PureBetaPars == {<<One, I(2)>>, <<I(4), I(4)>>}

PureOrders == {Zero, One, I(2)}

PureBetaGqCalls == {c \in BetaGqCalls : c[1] \in PureOrders /\ c[2] \in PureBetaPars}

PureBetaRiskCalls ==
    {c \in BetaRiskCalls : c[1] \in PureOrders /\ c[2] \in PureBetaPars /\ c[3] \in PureBetaPars}

PureBatches(cls) ==
    IF cls = "Beta" THEN {<<<<One, I(2)>>>>, <<<<I(2), One>>, <<One, One>>>>}
    ELSE {<<<<I(4), One>>>>, <<<<One, One>>, <<I(4), One>>>>}

---------------------------------------------------------------------------
(* The state: the last call, its result, and a result the caller kept.     *)

NoCall ==
    [op |-> "none", fam |-> "none", args |-> <<>>, ret |-> <<>>, exc |-> "none",
     warned |-> FALSE, value |-> <<>>]

\* The arrays a result refers to.
Refs(o, e, r) == IF o = "gq" /\ e = "none" THEN {r[1], r[2]} ELSE {}

\* A result with its arrays read from the heap.
Value(h, o, e, r) == IF o = "gq" /\ e = "none" THEN <<h[r[1]], h[r[2]]>> ELSE r

Init ==
    /\ op = "none"
    /\ fam = "none"
    /\ args = <<>>
    /\ ret = <<>>
    /\ exc = "none"
    /\ warned = FALSE
    /\ heap = EmptyHeap
    /\ kept = NoCall

\* The caller, holding no result, makes the call o of family f with
\* arguments a: it returns r (or raises e), having warned or not, and leaves
\* the heap h.
Return(o, f, a, r, e, w, h) ==
    /\ op = "none"
    /\ op' = o
    /\ fam' = f
    /\ args' = a
    /\ ret' = r
    /\ exc' = e
    /\ warned' = w
    /\ heap' = Release(h, Refs(o, e, r) \cup Refs(kept.op, kept.exc, kept.ret))
    /\ UNCHANGED kept

CallBetaPosterior(Priors, Data) ==
    \E prior \in Priors, data \in Data :
        Return("posterior", "Beta", <<prior, data>>, Beta_posterior(prior, data),
               "none", FALSE, heap)

CallNormPosterior(Summaries) ==
    \E prior \in Summaries, data \in Summaries :
        Return("posterior", "Norm", <<prior, data>>, Norm_posterior(prior, data),
               "none", FALSE, heap)

ReturnMoments(f, par1, par2, log, r) ==
    Return("moments", f, <<par1, par2, log>>, <<r.mean, r.var>>, "none", r.warned, heap)

ReturnGq(f, a, r) ==
    Return("gq", f, a, IF r.exc = "none" THEN <<r.x, r.w>> ELSE <<>>, r.exc, FALSE, r.heap)

ReturnRisk(f, a, r) == Return("risk", f, a, r.out, r.exc, FALSE, r.heap)

\* The columns of a batch of parameter pairs.
Par1(b) == [i \in DOMAIN b |-> b[i][1]]

Par2(b) == [i \in DOMAIN b |-> b[i][2]]

CallBetaMoments(Pars) ==
    \E b \in Pars, log \in BOOLEAN :
        ReturnMoments("Beta", Par1(b), Par2(b), log, Beta_moments(Par1(b), Par2(b), log))

CallNormMoments(Pars) ==
    \E b \in Pars, log \in BOOLEAN :
        ReturnMoments("Norm", Par1(b), Par2(b), log, Norm_moments(Par1(b), Par2(b), log))

CallBetaGq(Calls) ==
    \E c \in Calls :
        ReturnGq("Beta", <<c[1], c[2][1], c[2][2]>>, Beta_gq(heap, c[1], c[2][1], c[2][2]))

CallNormGq(Ns, Pars) ==
    \E n \in Ns, p \in Pars :
        ReturnGq("Norm", <<n, p[1], p[2]>>, Norm_gq(heap, n, p[1], p[2]))

CallBetaRisk(Calls) ==
    \E c \in Calls :
        ReturnRisk("Beta", <<c[2][1], c[2][2], c[3][1], c[3][2], c[1]>>,
                   risk("Beta", heap, c[2][1], c[2][2], c[3][1], c[3][2], c[1]))

CallNormRisk(Ns, Pars) ==
    \E n \in Ns, a \in Pars, b \in Pars :
        ReturnRisk("Norm", <<a[1], a[2], b[1], b[2], n>>,
                   risk("Norm", heap, a[1], a[2], b[1], b[2], n))

\* The caller lets go of the last result.
Discard ==
    /\ op # "none"
    /\ op' = "none"
    /\ fam' = "none"
    /\ args' = <<>>
    /\ ret' = <<>>
    /\ exc' = "none"
    /\ warned' = FALSE
    /\ heap' = Release(heap, Refs(kept.op, kept.exc, kept.ret))
    /\ UNCHANGED kept

\* The caller keeps the last result (and lets go of the one kept before).
Keep ==
    /\ op # "none"
    /\ kept' = [op |-> op, fam |-> fam, args |-> args, ret |-> ret, exc |-> exc,
                warned |-> warned, value |-> Value(heap, op, exc, ret)]
    /\ op' = "none"
    /\ fam' = "none"
    /\ args' = <<>>
    /\ ret' = <<>>
    /\ exc' = "none"
    /\ warned' = FALSE
    /\ heap' = Release(heap, Refs(op, exc, ret))

Next ==
    \/ CallBetaPosterior(BetaPriors, BetaData)
    \/ CallNormPosterior(NormSummaries)
    \/ CallBetaMoments(Batches("Beta"))
    \/ CallNormMoments(Batches("Norm"))
    \/ CallBetaGq(BetaGqCalls)
    \/ CallNormGq(GqOrders, NormPars)
    \/ CallBetaRisk(BetaRiskCalls)
    \/ CallNormRisk(RiskOrders, NormPars)
    \/ Discard

Spec == Init /\ [][Next]_vars

NextPure ==
    \/ CallBetaPosterior(PureBetaPriors, PureBetaData)
    \/ CallNormPosterior(PureNormSummaries)
    \/ CallBetaMoments(PureBatches("Beta"))
    \/ CallNormMoments(PureBatches("Norm"))
    \/ CallBetaGq(PureBetaGqCalls)
    \/ CallNormGq(PureOrders, PureNormPars)
    \/ CallBetaRisk(PureBetaRiskCalls)
    \/ CallNormRisk(PureOrders, PureNormPars)
    \/ Discard
    \/ Keep

SpecPure == Init /\ [][NextPure]_vars

---------------------------------------------------------------------------
(* Properties of the operations.                                           *)

\* The last call was operation o of family f and returned.
Returned(o, f) == op = o /\ fam = f /\ exc = "none"

\* The nodes and the weights of a rule, read from its heap.
RuleValue(r) == <<r.heap[r.x], r.heap[r.w]>>

RECURSIVE CdfWeightedSum(_, _, _, _, _)
\* Sum over the first k points of rule of node * CDF(node) * weight, the
\* CDF of family cls at (par1, par2).
CdfWeightedSum(cls, rule, k, par1, par2) ==
    IF k = 0 THEN Zero
    ELSE Add(CdfWeightedSum(cls, rule, k - 1, par1, par2),
             Mul(rule[1][k], Mul(dist_cdf(cls, rule[1][k], par1, par2), rule[2][k])))

FamilyMean(cls, par1, par2) ==
    IF cls = "Beta" THEN beta_mean(par1, par2) ELSE norm_mean(par1, par2)

\* gq_est of the two rules.
GqEst(cls, ruleA, ruleB, a) ==
    Add(CdfWeightedSum(cls, ruleA, Len(ruleA[1]), a[3], a[4]),
        CdfWeightedSum(cls, ruleB, Len(ruleB[1]), a[1], a[2]))

RiskPair(est, meanA, meanB) == <<Sub(est, meanA), Sub(est, meanB)>>

\* C1: risk returns (gq_est - mean_A, gq_est - mean_B), gq_est the sum
\* over arm A's rule of node * CDF_B(node) * weight plus the sum over arm
\* B's rule of node * CDF_A(node) * weight; the first component is arm A's.
C1_RiskIsEstimateMinusMeans ==
    (op = "risk" /\ exc = "none") =>
        ret = RiskPair(GqEst(fam, RuleValue(gq(fam, EmptyHeap, args[5], args[1], args[2])),
                             RuleValue(gq(fam, EmptyHeap, args[5], args[3], args[4])), args),
                       FamilyMean(fam, args[1], args[2]),
                       FamilyMean(fam, args[3], args[4]))

\* Witness of C1: risk of two different Normal arms at two points returned
\* two different components.
C1_Witness ==
    /\ Returned("risk", "Norm")
    /\ Trunc(args[5]) = 2
    /\ <<args[1], args[2]>> # <<args[3], args[4]>>
    /\ ret[1] # ret[2]

\* C2: Beta.posterior returns (a_prior + successes, b_prior + trials -
\* successes) for every prior and data summary, and (51, 51) for the prior
\* (1, 1) and the data (50, 100).
C2_BetaPosteriorFormula ==
    (op = "posterior" /\ fam = "Beta") =>
        /\ exc = "none"
        /\ ret[1] = Add(args[1][1], args[2][1])
        /\ ret[2] = Add(args[1][2], Sub(args[2][2], args[2][1]))
        /\ (args = <<<<One, One>>, <<I(50), I(100)>>>> => ret = <<I(51), I(51)>>)

\* Witness of C2: the posterior of the prior (1, 1) and the data (50, 100).
C2_Witness ==
    /\ Returned("posterior", "Beta")
    /\ args = <<<<One, One>>, <<I(50), I(100)>>>>
    /\ ret = <<I(51), I(51)>>

\* A valid Normal summary: a finite location, scale > 0, weight > 0.
ValidNorm(s) == Gt(s[2], Zero) /\ Gt(s[3], Zero)

\* The variance a summary contributes: scale^2 / weight.
EffectiveVariance(s) == Div(Power2(s[2]), s[3])

\* C3 as stated: for valid summaries of any positive weights the posterior
\* variance is strictly below both the prior's and the data's variance.
C3_BelowBothVariances ==
    (op = "posterior" /\ fam = "Norm" /\ ValidNorm(args[1]) /\ ValidNorm(args[2])) =>
        Lt(SqrtSquared(ret[2]), QMin(Power2(args[1][2]), Power2(args[2][2])))

\* C3 as amended: the posterior variance is strictly below scale^2/weight
\* of the prior and of the data, and below both variances when both
\* weights are at least 1.
C3_BelowEffectiveVariances ==
    (op = "posterior" /\ fam = "Norm" /\ ValidNorm(args[1]) /\ ValidNorm(args[2])) =>
        /\ exc = "none"
        /\ Gt(SqrtSquared(ret[2]), Zero)
        /\ Lt(SqrtSquared(ret[2]),
              QMin(EffectiveVariance(args[1]), EffectiveVariance(args[2])))
        /\ (Le(One, args[1][3]) /\ Le(One, args[2][3]) =>
               Lt(SqrtSquared(ret[2]), QMin(Power2(args[1][2]), Power2(args[2][2]))))

\* Witness of C3: two valid summaries of weight 1/2 whose posterior
\* variance is not below the prior's variance.
C3_Witness ==
    /\ Returned("posterior", "Norm")
    /\ ValidNorm(args[1]) /\ ValidNorm(args[2])
    /\ Lt(args[1][3], One) /\ Lt(args[2][3], One)
    /\ ~Lt(SqrtSquared(ret[2]), Power2(args[1][2]))

\* A valid Beta prior and data summary.
ValidBeta(prior, data) ==
    /\ Gt(prior[1], Zero) /\ Gt(prior[2], Zero)
    /\ Le(Zero, data[1]) /\ Le(data[1], data[2])

\* The input of the last posterior call is outside the family's domain.
InvalidPosteriorInput ==
    /\ op = "posterior"
    /\ IF fam = "Beta" THEN ~ValidBeta(args[1], args[2])
       ELSE ~(ValidNorm(args[1]) /\ ValidNorm(args[2]))

\* C4: posterior called with an input outside the family's domain fails
\* with a DomainError and returns no parameter pair.
C4_InvalidInputRaises ==
    InvalidPosteriorInput => (exc = "DomainError" /\ ret = <<>>)

IdenticalArms == <<args[1], args[2]>> = <<args[3], args[4]>>

\* C6 as stated: with identical arms the two components are equal and
\* within 1e-3 of zero.
C6_IdenticalArmsNearZero ==
    (op = "risk" /\ exc = "none" /\ IdenticalArms) =>
        /\ ret[1] = ret[2]
        /\ Le(ret[1], Q(1, 1000))
        /\ Le(Q(-1, 1000), ret[1])

\* C6 as amended: with identical arms the two components are equal.
C6_IdenticalArmsEqual ==
    (op = "risk" /\ exc = "none" /\ IdenticalArms) => ret[1] = ret[2]

\* Witness of C6: risk of two identical Normal arms at two points, both
\* components equal and far from zero.
C6_Witness ==
    /\ Returned("risk", "Norm")
    /\ IdenticalArms
    /\ Trunc(args[5]) = 2
    /\ ret[1] = ret[2]
    /\ Gt(ret[1], Q(1, 2))

\* C7: for a valid Beta prior and data summary Beta.posterior raises
\* nothing and returns two strictly positive parameters; b is unchanged
\* when trials = successes and the prior is returned for the data (0, 0).
C7_ValidBetaStaysPositive ==
    (op = "posterior" /\ fam = "Beta" /\ ValidBeta(args[1], args[2])) =>
        /\ exc = "none"
        /\ Gt(ret[1], Zero)
        /\ Gt(ret[2], Zero)
        /\ (args[2][1] = args[2][2] => ret[2] = args[1][2])
        /\ (args[2] = <<Zero, Zero>> => ret = args[1])

\* Witness of C7: a valid update with no failures and some successes.
C7_Witness ==
    /\ Returned("posterior", "Beta")
    /\ ValidBeta(args[1], args[2])
    /\ args[2][1] = args[2][2]
    /\ Gt(args[2][1], Zero)
    /\ ret[2] = args[1][2]

\* P(X < 0) for X normal with parameters (par1, par2).
ProbNegative(par1, par2) == norm_cdf(Zero, par1, par2)

SwapsWith(swapped) ==
    /\ swapped.exc = "none"
    /\ swapped.out = <<ret[2], ret[1]>>

\* C10: risk with the arms exchanged returns the two components
\* exchanged, and the difference of the components is mean_B - mean_A.
C10_SwappingArmsSwapsRisk ==
    (op = "risk" /\ exc = "none") =>
        /\ SwapsWith(risk(fam, heap, args[3], args[4], args[1], args[2], args[5]))
        /\ Sub(ret[1], ret[2]) = Sub(FamilyMean(fam, args[3], args[4]),
                                     FamilyMean(fam, args[1], args[2]))

\* Witness of C10: risk of two Beta arms of different means.
C10_Witness ==
    /\ Returned("risk", "Beta")
    /\ beta_mean(args[1], args[2]) # beta_mean(args[3], args[4])
    /\ ret[1] # ret[2]

===========================================================================
